---- MODULE Spec2Model ----
(***************************************************************************)
(* OsCvg Studio (web/app/page.tsx): the timeline, the real-time audio      *)
(* callback, the visualization and the offline WAV exporter of the Home    *)
(* component, as a state machine over the component's state and refs.      *)
(*                                                                         *)
(* Time.  PlayPosition (currentTime, currentTimeRef) is kept in ticks of   *)
(* 1/sampleRate second, so that the exporter's timeAtSample = i/sampleRate *)
(* is tick i; durations (showInterval, animateDuration, wavDuration) are   *)
(* kept in seconds as the source keeps them, and Secs(d) is d seconds in   *)
(* ticks.  A quotient of two times is the exact fraction (Div); 0/0 is NaN *)
(* and x/0 is Infinity as in IEEE 754, which the source's arithmetic uses. *)
(*                                                                         *)
(* Events.  Every event handler runs to completion and React re-renders    *)
(* before the next event, so a handler reads current state.  The closure   *)
(* of onaudioprocess is the exception: it is created once per playAudio    *)
(* call and keeps the values of that render (AudioNode).                   *)
(***************************************************************************)
EXTENDS Integers, Sequences, FiniteSets, TLC

(* ------------------------------ bounds -------------------------------- *)

\* frames per second of the export and ticks per second of the timeline
\* (48000 in the source, scaled down so that every frame is enumerated)
sampleRate == 2
\* frames per audio block (createScriptProcessor(4096, 0, 2), scaled down)
BlockSize == 2
\* number of distinct SVG files the user picks from
NumFiles == 2
\* largest showInterval chosen (the control allows up to CtlMaxInterval)
MaxInterval == 3
\* largest wavDuration chosen besides the initial one (the control allows
\* up to CtlMaxWav)
MaxWav == 3
\* largest wall-clock time between two timeline ticks followed, in ticks
MaxDelta == 2
\* number of audio blocks followed per session (unbounded in the source)
MaxBlocks == 2
\* amplitude units per full scale: a sample value v stands for v / SampleUnit
SampleUnit == 2

\* largest small number typed into a value field (besides the controls'
\* limits and the numbers next to them)
MaxTyped == 3

\* largest number of assets in the show list
MaxAssets == NumFiles
\* largest animateDuration chosen (the single tab's control allows up to
\* CtlMaxAnimateSingle)
MaxAnimate == MaxInterval
\* largest PlayPosition followed in Single mode, in seconds (unbounded in
\* the source; the scrubber allows up to CtlMaxScrubSingle)
MaxTime == MaxInterval

(* ------------------------- program constants -------------------------- *)

MinInterval == 2
CtlMaxInterval == 30
CtlMaxAnimateSingle == 30
MinWav == 1
CtlMaxWav == 86400
InitInterval == 5
InitAnimate == 1
InitWav == 10
\* useState(1.0) for gain, and the range of the Master Gain controls, in
\* percent
InitGain == 100
GainUnit == 100
ScrubMaxEmptyShow == 1
CtlMaxScrubSingle == 3600
HeaderSize == 44
RiffExtra == 36
Channels == 2
BytesPerSample == 2
\* the largest whole wavDuration whose dataSize = 48000 * wavDuration * 4 is
\* not above 0xFFFFFFFF - 44 (line 440): 4294967251 \div 192000
MaxWavSeconds == 22369
Int16Span == 65536
Int16Neg == 32768
Int16Pos == 32767
\* const sampleRate = 48000 in downloadWav, and (0xFFFFFFFF - 44) \div 1000
SourceRate == 48000
SizeLimitK == 4294967

\* null, for each type that holds it: a file, a list index, a signal, a
\* conversion in flight
NoFile == 0
SingleId == 0
NoIndex == -1
NoSignal == [id |-> -1, name |-> 0, left |-> <<>>, right |-> <<>>]
NoPending == [kind |-> "none", files |-> <<>>]
TABS == {"single", "show"}

Files == 1..NumFiles

Secs(d) == d * sampleRate

(* ------------------------------ signals ------------------------------- *)

\* The conversion service's answer for a file: two sample arrays of equal
\* length (signal_left, signal_right), zero-based as in the source.  File f
\* yields f + 1 samples; amplitudes are in units of 1/SampleUnit of full
\* scale and may exceed it (the converter does not enforce the range).  The pairs
\* (left[k], right[k]) of one signal differ from each other and from (0, 0).
SignalLen(f) == f + 1

ServiceLeft(f) == [k \in 0..(SignalLen(f) - 1) |-> k + 1]

ServiceRight(f) == [k \in 0..(SignalLen(f) - 1) |-> 0 - ((k + f) % 3) - 1]

\* ProcessedSignal: { id, name, left, right }; name is the file's name, id
\* the asset's id or SingleId for the id 'single'
ProcessedSignal(id, f) ==
    [id |-> id, name |-> f, left |-> ServiceLeft(f), right |-> ServiceRight(f)]

SigLength(sig) == Cardinality(DOMAIN sig.left)

\* undefined, for an array that the body of an answer lacks: told apart
\* from every array, the empty one included, by its domain
Undefined == [k \in {0 - 1} |-> 0]

\* What the conversion service can answer to one request: a signal; a
\* failure (a status other than 2xx, or no answer: fetch or res.json()
\* throws); a 2xx answer whose body is { error } without the arrays; a 2xx
\* answer whose signal_right is one sample shorter than its signal_left.
ServiceAnswers == {"signal", "failed", "error", "ragged"}

\* the body of an answer that has one (const data = await res.json())
ServiceBody(answer, f) ==
    [error |-> answer = "error",
     signal_left |-> IF answer = "error" THEN Undefined ELSE ServiceLeft(f),
     signal_right |->
        IF answer = "error" THEN Undefined
        ELSE IF answer = "ragged"
        THEN [k \in 0..(SignalLen(f) - 2) |-> ServiceRight(f)[k]]
        ELSE ServiceRight(f)]

\* the ProcessedSignal the conversions build from a body (lines 188-193,
\* 220-225): the arrays as the body has them
SignalOf(id, f, data) ==
    [id |-> id, name |-> f, left |-> data.signal_left, right |-> data.signal_right]

(* ----------------------------- arithmetic ----------------------------- *)

\* a / b on non-negative numbers, as an exact fraction: 0/0 is NaN (0 over
\* 0) and a/0 with a > 0 is Infinity (1 over 0)
Div(a, b) ==
    IF b = 0 THEN [num |-> IF a = 0 THEN 0 ELSE 1, den |-> 0]
             ELSE [num |-> a, den |-> b]

NaN == [num |-> 0, den |-> 0]
One == [num |-> 1, den |-> 1]

IsNaN(x) == x.num = 0 /\ x.den = 0

\* MathMin1 without the cap at 1
MathMin1NoCap(x) == x

\* Math.min(1.0, x): NaN when x is NaN, 1 when x >= 1 or Infinity, else x
MathMin1(x) ==
    IF IsNaN(x) THEN NaN
    ELSE IF x.den = 0 \/ x.num >= x.den THEN One
    ELSE x

\* k < len * x for integers k, len and a fraction x; false when x is NaN
LessThanScaled(k, len, x) == ~IsNaN(x) /\ k * x.den < len * x.num

\* Math.floor(len * x) for a finite fraction x (callers test IsNaN first)
FloorScaled(len, x) == (len * x.num) \div x.den

\* whether two fractions denote the same number (NaN only like NaN)
SameNumber(x, y) ==
    /\ IsNaN(x) <=> IsNaN(y)
    /\ x.num * y.den = y.num * x.den
    /\ (x.den = 0) <=> (y.den = 0)

\* 0 <= x <= 1
InUnitInterval(x) == x.den > 0 /\ x.num >= 0 /\ x.num <= x.den

(* ------------------------------- state -------------------------------- *)

VARIABLES
    activeTab,        \* useState<Tab>('single')
    singleFile,       \* the selected single file, or null
    showFiles,        \* AssetFile[]: the show list, in order
    playlist,         \* ProcessedSignal[]
    singleSignal,     \* ProcessedSignal, or null
    isProcessing,     \* a conversion is running
    isPlaying,
    showInterval,     \* seconds
    animateDuration,  \* seconds
    wavDuration,      \* seconds
    gain,             \* Master Gain, in percent (Math.round(gain * 100))
    currentTime,      \* PlayPosition as rendered, in ticks
    currentTimeRef,   \* PlayPosition as the callbacks read it, in ticks
    sinceLastTime,    \* performance.now() - lastTimeRef.current, in ticks
    draggedIndex,     \* zero-based index of the dragged asset, or null
    audioGraph,       \* the ScriptProcessorNodes connected to the output
    scriptNodeRef,    \* position in audioGraph of scriptNodeRef.current, 0 = null
    gainNodeRef,      \* whether gainNodeRef.current is set
    pending,          \* the conversion awaiting the service, or null
    wavFile,          \* the file handed to the browser by downloadWav, or null
    wavAlert          \* the alert the last run of downloadWav raised, or none

storeVars == <<singleFile, showFiles, playlist, singleSignal, isProcessing,
               draggedIndex, pending>>
configVars == <<showInterval, animateDuration, wavDuration, gain>>
timeVars == <<currentTime, currentTimeRef, sinceLastTime>>
audioVars == <<isPlaying, audioGraph, scriptNodeRef, gainNodeRef>>
vars == <<activeTab, storeVars, configVars, timeVars, audioVars, wavFile, wavAlert>>

\* const totalShowDuration = playlist.length * showInterval (seconds)
totalShowDuration == Len(playlist) * showInterval

\* An AssetFile: the file and the random id given to it when it was added.
\* A file is in the list at most once here, so the file number serves as the
\* id, unique as the random ids are.
AssetFile(f) == [id |-> f, file |-> f]

\* the pair of samples (left[k], right[k]) of a signal, and silence
Sample(sig, k) == <<sig.left[k], sig.right[k]>>
Silence == <<0, 0>>

(* --------------------------- frame resolution ------------------------- *)

\* AudioIndex without the wrap into the playlist
AudioIndexNoModulo(node, time) == time \div Secs(node.showInterval)

\* onaudioprocess, the index into the closure's playlist (line 302)
AudioIndex(node, time) ==
    (time \div Secs(node.showInterval)) % Len(node.playlist)

\* onaudioprocess, the resolution of the block (lines 294-308): node is the
\* closure of the playAudio call that created the callback, time the value
\* of currentTimeRef.current it reads.  signal NoSignal stands for undefined
\* (playlist[NaN] of an empty playlist).
AudioResolve(node, time) ==
    IF node.activeTab = "single"
    THEN [signal |-> node.singleSignal,
          progress |-> MathMin1(Div(time, Secs(node.animateDuration)))]
    ELSE LET segmentTime == time % Secs(node.showInterval)
         IN  [signal |-> IF Len(node.playlist) = 0 THEN NoSignal
                         ELSE node.playlist[AudioIndex(node, time) + 1],
              progress |-> MathMin1(Div(segmentTime, Secs(node.animateDuration)))]

\* one frame of the scan loop (lines 315-322) at cursor value phase
AudioFrame(sig, progress, phase) ==
    LET signalLen == SigLength(sig)
        signalIdx == phase % signalLen
    IN  IF LessThanScaled(signalIdx, signalLen, progress)
        THEN Sample(sig, signalIdx)
        ELSE Silence

\* the output block of one invocation; an untouched buffer is silence
AudioBlock(node, time) ==
    LET r == AudioResolve(node, time)
    IN  [i \in 0..(BlockSize - 1) |->
            IF r.signal = NoSignal THEN Silence
            ELSE AudioFrame(r.signal, r.progress, node.phase + i)]

\* AudioPhase with the increment inside the branch that emits a sample
AudioPhaseCountsAudible(node, time) ==
    node.phase + Cardinality({i \in 0..(BlockSize - 1) :
                                 AudioBlock(node, time)[i] # Silence})

\* whether an invocation throws: currentSignal.left.length (line 312) is a
\* TypeError when the resolved signal has no left array
AudioRaises(node, time) ==
    LET sig == AudioResolve(node, time).signal
    IN  sig # NoSignal /\ sig.left = Undefined

\* the cursor after one invocation: the early return leaves it alone, and so
\* does the exception, thrown ahead of the loop
AudioPhase(node, time) ==
    IF AudioResolve(node, time).signal = NoSignal \/ AudioRaises(node, time)
    THEN node.phase
    ELSE node.phase + BlockSize

\* the closure a playAudio call in the current render creates
CurrentClosure ==
    [activeTab |-> activeTab, singleSignal |-> singleSignal,
     playlist |-> playlist, animateDuration |-> animateDuration,
     showInterval |-> showInterval, phase |-> 0]

\* Visualization Loop effect, the index into the playlist (line 380)
VisIndex(time) == (time \div Secs(showInterval)) % Len(playlist)

\* Visualization Loop effect, the resolution (lines 371-386) at position
\* time; signal NoSignal: the effect returns before drawing
VisResolve(time) ==
    IF activeTab = "single"
    THEN [signal |-> singleSignal,
          progress |-> MathMin1(Div(time, Secs(animateDuration)))]
    ELSE IF Len(playlist) = 0
    THEN [signal |-> NoSignal, progress |-> One]
    ELSE LET segmentTime == time % Secs(showInterval)
         IN  [signal |-> playlist[VisIndex(time) + 1],
              progress |-> MathMin1(Div(segmentTime, Secs(animateDuration)))]

\* the indices of the samples the effect traces (lines 400-408): the first
\* visibleLen = Math.floor(len * progress); none when visibleLen > 0 fails
VisTraced(sig, progress) ==
    IF IsNaN(progress) THEN {}
    ELSE LET visibleLen == FloorScaled(SigLength(sig), progress)
         IN  IF visibleLen > 0 THEN 0..(visibleLen - 1) ELSE {}

(* ------------------------------ helpers ------------------------------- *)

\* the sequence without its element at zero-based index i (filter, splice)
RemoveAt(seq, i) ==
    [k \in 1..(Len(seq) - 1) |-> IF k <= i THEN seq[k] ELSE seq[k + 1]]

\* the sequence with item inserted at zero-based index i (splice(i, 0, item))
InsertAt(seq, i, item) ==
    [k \in 1..(Len(seq) + 1) |->
        IF k <= i THEN seq[k] ELSE IF k = i + 1 THEN item ELSE seq[k - 1]]

\* onDragOverItem's move: splice the item out at from, splice it in at to
MoveItem(seq, from, to) == InsertAt(RemoveAt(seq, from), to, seq[from + 1])

\* the files of the show list
ShownFiles == {showFiles[k].file : k \in 1..Len(showFiles)}

\* const hasData = isSingle ? !!singleSignal : playlist.length > 0 (also
\* the disabled attribute of the play and download buttons)
hasData == IF activeTab = "single" THEN singleSignal # NoSignal ELSE Len(playlist) > 0

\* during a pointer drag of a list item the browser delivers only the drag's
\* own events: every other user input waits for dragend
NotDragging == draggedIndex = NoIndex

(* ------------------------------ playback ------------------------------ *)

\* StopAudio without the disconnect
StopAudioKeepsConnection ==
    /\ scriptNodeRef' = 0
    /\ isPlaying' = FALSE
    /\ UNCHANGED <<audioGraph, gainNodeRef>>

\* stopAudio (lines 274-280)
StopAudio ==
    /\ audioGraph' = IF scriptNodeRef # 0 THEN RemoveAt(audioGraph, scriptNodeRef - 1)
                                          ELSE audioGraph
    /\ scriptNodeRef' = 0
    /\ isPlaying' = FALSE
    /\ UNCHANGED gainNodeRef

\* PlayAudio without lastTimeRef.current = performance.now()
PlayAudioKeepsLastTime ==
    IF ~hasData
    THEN UNCHANGED <<audioVars, sinceLastTime>>
    ELSE /\ audioGraph' = Append(audioGraph, CurrentClosure)
         /\ scriptNodeRef' = Len(audioGraph) + 1
         /\ gainNodeRef' = TRUE
         /\ isPlaying' = TRUE
         /\ UNCHANGED sinceLastTime

\* playAudio (lines 282-336): a new node with a fresh closure, phase 0
PlayAudio ==
    IF ~hasData
    THEN UNCHANGED <<audioVars, sinceLastTime>>
    ELSE /\ audioGraph' = Append(audioGraph, CurrentClosure)
         /\ scriptNodeRef' = Len(audioGraph) + 1
         /\ gainNodeRef' = TRUE
         /\ isPlaying' = TRUE
         /\ sinceLastTime' = 0

\* togglePlay (lines 416-422), behind the play button (line 785)
TogglePlay ==
    /\ NotDragging
    /\ hasData
    /\ IF isPlaying THEN StopAudio /\ UNCHANGED sinceLastTime ELSE PlayAudio
    /\ UNCHANGED <<activeTab, storeVars, configVars, currentTime, currentTimeRef,
                   wavFile, wavAlert>>

\* one invocation of onaudioprocess of the k-th connected node
AudioProcess(k) ==
    /\ audioGraph[k].phase + BlockSize <= MaxBlocks * BlockSize
    /\ audioGraph' = [audioGraph EXCEPT
                        ![k].phase = AudioPhase(audioGraph[k], currentTimeRef)]
    /\ UNCHANGED <<activeTab, storeVars, configVars, timeVars, isPlaying,
                   scriptNodeRef, gainNodeRef, wavFile, wavAlert>>

(* ------------------------------ timeline ------------------------------ *)

\* TickPosition without the wrap at the end of the show
TickPositionNoWrap(newTime) == newTime

\* the position the timeline tick stores (lines 354-360)
TickPosition(newTime) ==
    IF activeTab = "show" /\ newTime >= Secs(totalShowDuration) THEN 0 ELSE newTime

\* Timeline Loop effect, one run of update (lines 349-364)
Tick ==
    /\ isPlaying
    /\ LET newTime == currentTimeRef + sinceLastTime
       IN  /\ activeTab = "single" => newTime <= Secs(MaxTime)
           /\ currentTimeRef' = TickPosition(newTime)
           /\ currentTime' = TickPosition(newTime)
    /\ sinceLastTime' = 0
    /\ UNCHANGED <<activeTab, storeVars, configVars, audioVars, wavFile, wavAlert>>

\* the wall clock advances by one tick
Elapse ==
    /\ sinceLastTime < MaxDelta
    /\ sinceLastTime' = sinceLastTime + 1
    /\ UNCHANGED <<activeTab, storeVars, configVars, currentTime, currentTimeRef,
                   audioVars, wavFile, wavAlert>>

\* the scrubber's max attribute (line 812), in ticks
ScrubMax ==
    IF activeTab = "show"
    THEN (IF totalShowDuration # 0 THEN Secs(totalShowDuration)
                                   ELSE Secs(ScrubMaxEmptyShow))
    ELSE Secs(IF MaxTime < CtlMaxScrubSingle THEN MaxTime ELSE CtlMaxScrubSingle)

\* ScrubTime that also restarts the scan of every connected callback
ScrubTimeResetsCursor(time) ==
    /\ NotDragging
    /\ time \in 0..ScrubMax
    /\ currentTimeRef' = time
    /\ currentTime' = time
    /\ audioGraph' = [k \in 1..Len(audioGraph) |-> [audioGraph[k] EXCEPT !.phase = 0]]
    /\ UNCHANGED <<activeTab, storeVars, configVars, sinceLastTime, isPlaying,
                   scriptNodeRef, gainNodeRef, wavFile, wavAlert>>

\* scrubTime (lines 424-427)
ScrubTime(time) ==
    /\ NotDragging
    /\ time \in 0..ScrubMax
    /\ currentTimeRef' = time
    /\ currentTime' = time
    /\ UNCHANGED <<activeTab, storeVars, configVars, sinceLastTime, audioVars,
                   wavFile, wavAlert>>

\* the SINGLE and SHOW buttons (lines 532, 538)
SelectTab(tab) ==
    /\ NotDragging
    /\ activeTab' = tab
    /\ StopAudio
    /\ currentTime' = 0
    /\ currentTimeRef' = 0
    /\ UNCHANGED <<storeVars, configVars, sinceLastTime, wavFile, wavAlert>>

(* ---------------------------- configuration --------------------------- *)

\* the max attribute of the Animate (s) controls (lines 655, 666)
AnimateMax == IF activeTab = "show" THEN showInterval ELSE CtlMaxAnimateSingle

\* setAnimateDuration behind the Animate (s) slider and typed value (lines
\* 652-668): whole seconds within the control's range
SetAnimateDuration(v) ==
    /\ NotDragging
    /\ v \in 0..MaxAnimate
    /\ v <= AnimateMax
    /\ animateDuration' = v
    /\ UNCHANGED <<activeTab, storeVars, showInterval, wavDuration, gain, timeVars,
                   audioVars, wavFile, wavAlert>>

\* updateShowInterval (lines 104-109) behind the Interval (s) controls,
\* which only the show tab renders (lines 670-676)
UpdateShowInterval(val) ==
    /\ NotDragging
    /\ activeTab = "show"
    /\ val \in MinInterval..MaxInterval
    /\ val <= CtlMaxInterval
    /\ showInterval' = val
    /\ animateDuration' = IF animateDuration > val THEN val ELSE animateDuration
    /\ UNCHANGED <<activeTab, storeVars, wavDuration, gain, timeVars, audioVars,
                   wavFile, wavAlert>>

(* ----------------------------- signal store --------------------------- *)

\* handleSingleFileChange (lines 126-132); the input exists in the single tab
HandleSingleFileChange(f) ==
    /\ NotDragging
    /\ activeTab = "single"
    /\ f \in Files
    /\ singleFile' = f
    /\ singleSignal' = NoSignal
    /\ StopAudio
    /\ UNCHANGED <<activeTab, showFiles, playlist, isProcessing, draggedIndex,
                   pending, configVars, timeVars, wavFile, wavAlert>>

\* handleShowFilesChange (lines 134-144); the input exists in the show tab
HandleShowFilesChange(f) ==
    /\ NotDragging
    /\ activeTab = "show"
    /\ f \in Files \ ShownFiles
    /\ Len(showFiles) < MaxAssets
    /\ showFiles' = Append(showFiles, AssetFile(f))
    /\ playlist' = <<>>
    /\ StopAudio
    /\ UNCHANGED <<activeTab, singleFile, singleSignal, isProcessing, draggedIndex,
                   pending, configVars, timeVars, wavFile, wavAlert>>

\* the file lists a drop on the asset panel carries: one file dragged in
\* from outside, or none when what is dropped is not a file (a list item
\* dragged within the page, whose drop event bubbles to the panel)
DropLists == {<<>>} \cup {<<f>> : f \in Files}

\* handleDrop (lines 146-164) behind the panel's onDrop (line 563).
\* dataTransfer.files is a FileList, which is truthy also when it is empty:
\* dropped[0] is then undefined.  The drop of a list item is followed by its
\* dragend (onDragEnd, also the item's own onDrop, lines 595-596).
HandleDrop(files) ==
    /\ files \in DropLists
    /\ files # <<>> => NotDragging
    /\ IF activeTab = "single"
       THEN /\ singleFile' = IF files = <<>> THEN NoFile ELSE files[1]
            /\ singleSignal' = NoSignal
            /\ UNCHANGED <<showFiles, playlist>>
       ELSE /\ \A k \in 1..Len(files) : files[k] \notin ShownFiles
            /\ Len(showFiles) + Len(files) <= MaxAssets
            /\ showFiles' = showFiles \o [k \in 1..Len(files) |-> AssetFile(files[k])]
            /\ playlist' = <<>>
            /\ UNCHANGED <<singleFile, singleSignal>>
    /\ StopAudio
    /\ draggedIndex' = NoIndex
    /\ UNCHANGED <<activeTab, isProcessing, pending, configVars, timeVars, wavFile, wavAlert>>

\* removeShowFile (lines 166-170)
RemoveShowFile(index) ==
    /\ NotDragging
    /\ activeTab = "show"
    /\ index \in 0..(Len(showFiles) - 1)
    /\ showFiles' = RemoveAt(showFiles, index)
    /\ playlist' = <<>>
    /\ StopAudio
    /\ UNCHANGED <<activeTab, singleFile, singleSignal, isProcessing, draggedIndex,
                   pending, configVars, timeVars, wavFile, wavAlert>>

\* convertSingle up to its first await (lines 172-183), behind the convert
\* button of the single tab (line 616)
ConvertSingleStart ==
    /\ NotDragging
    /\ activeTab = "single"
    /\ singleFile # NoFile
    /\ ~isProcessing
    /\ isProcessing' = TRUE
    /\ pending' = [kind |-> "single", files |-> <<AssetFile(singleFile)>>]
    /\ StopAudio
    /\ UNCHANGED <<activeTab, singleFile, showFiles, playlist, singleSignal,
                   draggedIndex, configVars, timeVars, wavFile, wavAlert>>

\* convertSingle after the service answered (lines 184-201): ok is whether
\* the conversion succeeded, with the signal the input contract describes
\* (ConvertSingleAnswer has the other answers)
ConvertSingleFinish(ok) ==
    /\ pending # NoPending
    /\ pending.kind = "single"
    /\ IF ok
       THEN /\ singleSignal' = ProcessedSignal(SingleId, pending.files[1].file)
            /\ currentTime' = 0
            /\ currentTimeRef' = 0
       ELSE UNCHANGED <<singleSignal, currentTime, currentTimeRef>>
    /\ isProcessing' = FALSE
    /\ pending' = NoPending
    /\ UNCHANGED <<activeTab, singleFile, showFiles, playlist, draggedIndex,
                   configVars, sinceLastTime, audioVars, wavFile, wavAlert>>

\* convertShow up to its first await (lines 204-217), behind the convert
\* button of the show tab (line 624)
ConvertShowStart ==
    /\ NotDragging
    /\ activeTab = "show"
    /\ Len(showFiles) # 0
    /\ ~isProcessing
    /\ isProcessing' = TRUE
    /\ pending' = [kind |-> "show", files |-> showFiles]
    /\ StopAudio
    /\ UNCHANGED <<activeTab, singleFile, showFiles, playlist, singleSignal,
                   draggedIndex, configVars, timeVars, wavFile, wavAlert>>

\* the assets of a list whose conversion succeeded, in the list's order
RECURSIVE Converted(_, _)
Converted(assets, okIds) ==
    IF assets = <<>> THEN <<>>
    ELSE LET rest == Converted(Tail(assets), okIds)
             a == Head(assets)
         IN  IF a.id \in okIds THEN <<ProcessedSignal(a.id, a.file)>> \o rest
                               ELSE rest

\* convertShow after the service answered for every asset (lines 218-235):
\* okIds are the assets whose conversion succeeded, each with the signal the
\* input contract describes (ConvertShowAnswer has the other answers)
ConvertShowFinish(okIds) ==
    /\ pending # NoPending
    /\ pending.kind = "show"
    /\ okIds \subseteq {pending.files[k].id : k \in 1..Len(pending.files)}
    /\ playlist' = Converted(pending.files, okIds)
    /\ currentTime' = 0
    /\ currentTimeRef' = 0
    /\ isProcessing' = FALSE
    /\ pending' = NoPending
    /\ UNCHANGED <<activeTab, singleFile, showFiles, singleSignal, draggedIndex,
                   configVars, sinceLastTime, audioVars, wavFile, wavAlert>>

\* convertSingle after the service answered (lines 184-201), for every
\* answer: only a failure and an { error } body throw into the catch
ConvertSingleAnswer(answer) ==
    /\ pending # NoPending
    /\ pending.kind = "single"
    /\ answer \in ServiceAnswers
    /\ LET f == pending.files[1].file
           data == ServiceBody(answer, f)
       IN  IF answer # "failed" /\ ~data.error
           THEN /\ singleSignal' = SignalOf(SingleId, f, data)
                /\ currentTime' = 0
                /\ currentTimeRef' = 0
           ELSE UNCHANGED <<singleSignal, currentTime, currentTimeRef>>
    /\ isProcessing' = FALSE
    /\ pending' = NoPending
    /\ UNCHANGED <<activeTab, singleFile, showFiles, playlist, draggedIndex,
                   configVars, sinceLastTime, audioVars, wavFile, wavAlert>>

\* newPlaylist of convertShow (lines 208-229) for every answer: only a
\* failure throws into the catch; data.error is not looked at
RECURSIVE ConvertedAnswers(_, _)
ConvertedAnswers(assets, answers) ==
    IF assets = <<>> THEN <<>>
    ELSE LET rest == ConvertedAnswers(Tail(assets), answers)
             a == Head(assets)
         IN  IF answers[a.id] # "failed"
             THEN <<SignalOf(a.id, a.file, ServiceBody(answers[a.id], a.file))>> \o rest
             ELSE rest

\* convertShow after the service answered for every asset (lines 218-235):
\* answers[id] is the answer for the asset id
ConvertShowAnswer(answers) ==
    /\ pending # NoPending
    /\ pending.kind = "show"
    /\ answers \in [Files -> ServiceAnswers]
    /\ playlist' = ConvertedAnswers(pending.files, answers)
    /\ currentTime' = 0
    /\ currentTimeRef' = 0
    /\ isProcessing' = FALSE
    /\ pending' = NoPending
    /\ UNCHANGED <<activeTab, singleFile, showFiles, singleSignal, draggedIndex,
                   configVars, sinceLastTime, audioVars, wavFile, wavAlert>>

\* onDragStart (lines 237-240)
OnDragStart(index) ==
    /\ NotDragging
    /\ activeTab = "show"
    /\ index \in 0..(Len(showFiles) - 1)
    /\ draggedIndex' = index
    /\ UNCHANGED <<activeTab, singleFile, showFiles, playlist, singleSignal,
                   isProcessing, pending, configVars, timeVars, audioVars, wavFile, wavAlert>>

\* onDragOverItem (lines 242-261)
OnDragOverItem(index) ==
    /\ index \in 0..(Len(showFiles) - 1)
    /\ draggedIndex # NoIndex
    /\ draggedIndex # index
    /\ showFiles' = MoveItem(showFiles, draggedIndex, index)
    /\ playlist' = IF Len(playlist) = Len(showFiles)
                   THEN MoveItem(playlist, draggedIndex, index)
                   ELSE playlist
    /\ draggedIndex' = index
    /\ UNCHANGED <<activeTab, singleFile, singleSignal, isProcessing, pending,
                   configVars, timeVars, audioVars, wavFile, wavAlert>>

\* onDragEnd (lines 263-265)
OnDragEnd ==
    /\ draggedIndex # NoIndex
    /\ draggedIndex' = NoIndex
    /\ UNCHANGED <<activeTab, singleFile, showFiles, playlist, singleSignal,
                   isProcessing, pending, configVars, timeVars, audioVars, wavFile, wavAlert>>

(* ------------------------------ exporter ------------------------------ *)

\* null for the exported file
NoWav == [dataSize |-> -1, riffSize |-> -1, byteLength |-> -1, frames |-> <<>>]

\* DataView.setInt16 of a number: truncated toward zero, then wrapped to 16
\* bits
ToInt16(x) == ((x + Int16Neg) % Int16Span) - Int16Neg

\* Quantize without Math.max(-1, Math.min(1, ...))
QuantizeNoClamp(v) ==
    IF v < 0 THEN ToInt16(0 - ((Int16Neg * (0 - v)) \div SampleUnit))
             ELSE ToInt16((Int16Pos * v) \div SampleUnit)

\* the value written for a sample (lines 489-490): v / SampleUnit clamped to
\* [-1, 1], scaled by 0x8000 below zero and by 0x7FFF otherwise
Quantize(v) ==
    LET c == IF v < 0 - SampleUnit THEN 0 - SampleUnit
             ELSE IF v > SampleUnit THEN SampleUnit ELSE v
    IN  IF c < 0 THEN ToInt16(0 - ((Int16Neg * (0 - c)) \div SampleUnit))
                 ELSE ToInt16((Int16Pos * c) \div SampleUnit)

\* downloadWav, the index into the playlist for frame i (lines 473-474);
\* timeAtSample = i / sampleRate is tick i
ExportIndex(i) ==
    LET showLoopTime == IF totalShowDuration > 0 THEN i % Secs(totalShowDuration)
                                                 ELSE 0
    IN  (showLoopTime \div Secs(showInterval)) % Len(playlist)

\* ExportResolve with the progress taken from the time since the start of
\* the export instead of the time since the start of the segment
ExportResolveWholeTime(i) ==
    IF activeTab = "single"
    THEN [signal |-> singleSignal,
          progress |-> MathMin1(Div(i, Secs(animateDuration)))]
    ELSE [signal |-> playlist[ExportIndex(i) + 1],
          progress |-> MathMin1(Div(i, Secs(animateDuration)))]

\* ExportResolve with the export's clock started at the play position
\* instead of at 0
ExportResolveFromPosition(i) ==
    LET t == i + currentTimeRef
    IN  IF activeTab = "single"
        THEN [signal |-> singleSignal,
              progress |-> MathMin1(Div(t, Secs(animateDuration)))]
        ELSE LET showLoopTime == IF totalShowDuration > 0
                                 THEN t % Secs(totalShowDuration) ELSE 0
                 segmentTime == showLoopTime % Secs(showInterval)
             IN  [signal |-> playlist[ExportIndex(i) + 1],
                  progress |-> MathMin1(Div(segmentTime, Secs(animateDuration)))]

\* downloadWav, the signal and progress of frame i (lines 465-478)
ExportResolve(i) ==
    IF activeTab = "single"
    THEN [signal |-> singleSignal,
          progress |-> MathMin1(Div(i, Secs(animateDuration)))]
    ELSE LET showLoopTime == IF totalShowDuration > 0
                             THEN i % Secs(totalShowDuration) ELSE 0
             segmentTime == showLoopTime % Secs(showInterval)
         IN  [signal |-> playlist[ExportIndex(i) + 1],
              progress |-> MathMin1(Div(segmentTime, Secs(animateDuration)))]

\* isSingle ? wavDuration : showInterval, the window of the index mapping
ExportWindow == IF activeTab = "single" THEN wavDuration ELSE showInterval

\* downloadWav, whether frame i carries a sample (line 488) and which one
\* (line 486)
ExportAudible(i) ==
    LET local == i % (sampleRate * ExportWindow)
    IN  LessThanScaled(local, sampleRate * ExportWindow, ExportResolve(i).progress)

ExportSigIdx(i) ==
    (i % (sampleRate * ExportWindow)) % SigLength(ExportResolve(i).signal)

\* downloadWav, the two 16-bit values written for frame i (lines 488-500)
ExportFrame(i) ==
    LET sig == ExportResolve(i).signal
        sigIdx == ExportSigIdx(i)
    IN  IF ExportAudible(i)
        THEN <<Quantize(sig.left[sigIdx % SigLength(sig)]),
               Quantize(sig.right[sigIdx % SigLength(sig)])>>
        ELSE Silence

\* const totalSamples = sampleRate * wavDuration
totalSamples == sampleRate * wavDuration

\* WavOutput handed over before its last frame is written
WavOutputWithoutLastFrame ==
    LET dataSize == totalSamples * Channels * BytesPerSample
    IN  [dataSize |-> dataSize,
         riffSize |-> RiffExtra + dataSize,
         byteLength |-> HeaderSize + dataSize,
         frames |-> [i \in 0..(totalSamples - 2) |-> ExportFrame(i)]]

\* WavOutput with the length of the file in the RIFF chunk size field
WavOutputRiffIsFileLength ==
    LET dataSize == totalSamples * Channels * BytesPerSample
    IN  [dataSize |-> dataSize,
         riffSize |-> HeaderSize + dataSize,
         byteLength |-> HeaderSize + dataSize,
         frames |-> [i \in 0..(totalSamples - 1) |-> ExportFrame(i)]]

\* the file downloadWav builds (lines 434-501): the sizes its header states
\* and its frames
WavOutput ==
    LET dataSize == totalSamples * Channels * BytesPerSample
    IN  [dataSize |-> dataSize,
         riffSize |-> RiffExtra + dataSize,
         byteLength |-> HeaderSize + dataSize,
         frames |-> [i \in 0..(totalSamples - 1) |-> ExportFrame(i)]]

\* dataSize > 0xFFFFFFFF - 44 at the source's 48000 frames per second
SizeRejected == wavDuration > MaxWavSeconds

\* What downloadWav tells the user when it hands over no file, as the
\* information the message carries: the limit it names (in GB) and the
\* duration it names (in seconds); NoInfo where the message names none.
NoInfo == -1
FileLimitGB == 4
NoAlert == [text |-> "", limit |-> NoInfo, duration |-> NoInfo]
\* line 441
LimitAlert ==
    [text |-> "WAV limit exceeded (Max 4GB). Please reduce duration.",
     limit |-> FileLimitGB, duration |-> NoInfo]
\* line 512
MemoryAlert ==
    [text |-> "Memory allocation failed.", limit |-> NoInfo, duration |-> NoInfo]

\* DownloadWav with new ArrayBuffer ahead of the size check
DownloadWavAllocatesFirst(allocated) ==
    /\ NotDragging
    /\ hasData
    /\ IF ~allocated
       THEN wavFile' = wavFile /\ wavAlert' = MemoryAlert
       ELSE IF SizeRejected
       THEN wavFile' = wavFile /\ wavAlert' = LimitAlert
       ELSE wavFile' = WavOutput /\ wavAlert' = NoAlert
    /\ UNCHANGED <<activeTab, storeVars, configVars, timeVars, audioVars>>

\* downloadWav (lines 429-514), behind the download button (line 737);
\* allocated is whether new ArrayBuffer succeeded (the catch alerts)
DownloadWav(allocated) ==
    /\ NotDragging
    /\ hasData
    /\ IF SizeRejected
       THEN wavFile' = wavFile /\ wavAlert' = LimitAlert
       ELSE IF ~allocated
       THEN wavFile' = wavFile /\ wavAlert' = MemoryAlert
       ELSE wavFile' = WavOutput /\ wavAlert' = NoAlert
    /\ UNCHANGED <<activeTab, storeVars, configVars, timeVars, audioVars>>

\* Math.round(val / showInterval) * showInterval
SnapToInterval(val) == ((2 * val + showInterval) \div (2 * showInterval)) * showInterval

\* the WAV Export (s) controls (lines 682-712)
SetWavDuration(v) ==
    /\ NotDragging
    /\ v \in MinWav..MaxWav
    /\ v <= CtlMaxWav
    /\ LET val == IF activeTab = "show" /\ showInterval > 0 THEN SnapToInterval(v)
                                                            ELSE v
       IN  wavDuration' = IF val = 0 THEN MinWav ELSE val
    /\ UNCHANGED <<activeTab, storeVars, showInterval, animateDuration, gain,
                   timeVars, audioVars, wavFile, wavAlert>>

(* ---------------------------- typed values ---------------------------- *)

\* What the user leaves in the field of an EditableValue: text that
\* parseFloat reads as a number, or text it reads as NaN (empty, letters).
\* The numbers go below every minimum and above every maximum.
TypedNumbers ==
    ((0 - 1)..MaxTyped) \cup {CtlMaxInterval, CtlMaxInterval + 1, GainUnit,
                              GainUnit + 1, CtlMaxWav, CtlMaxWav + 1}

Entries ==
    {[nan |-> TRUE, num |-> 0]} \cup {[nan |-> FALSE, num |-> n] : n \in TypedNumbers}

\* HandleBlur without Math.max(min, Math.min(max, num))
HandleBlurNoClamp(entry, value, min, max) ==
    IF entry.nan THEN value ELSE entry.num

\* EditableValue.handleBlur (lines 41-47): the number handed to onChange
HandleBlur(entry, value, min, max) ==
    LET num == IF entry.nan THEN value ELSE entry.num
        capped == IF num > max THEN max ELSE num
    IN  IF capped < min THEN min ELSE capped

\* the typed value of Animate (s) (lines 661-668)
TypeAnimateDuration(entry) ==
    /\ NotDragging
    /\ entry \in Entries
    /\ animateDuration' = HandleBlur(entry, animateDuration, 0, AnimateMax)
    /\ UNCHANGED <<activeTab, storeVars, showInterval, wavDuration, gain, timeVars,
                   audioVars, wavFile, wavAlert>>

\* the typed value of Interval (s) (line 674), into updateShowInterval
TypeShowInterval(entry) ==
    /\ NotDragging
    /\ entry \in Entries
    /\ activeTab = "show"
    /\ LET val == HandleBlur(entry, showInterval, MinInterval, CtlMaxInterval)
       IN  /\ showInterval' = val
           /\ animateDuration' = IF animateDuration > val THEN val
                                                          ELSE animateDuration
    /\ UNCHANGED <<activeTab, storeVars, wavDuration, gain, timeVars, audioVars,
                   wavFile, wavAlert>>

\* the typed value of WAV Export (s) (lines 700-712)
TypeWavDuration(entry) ==
    /\ NotDragging
    /\ entry \in Entries
    /\ LET v == HandleBlur(entry, wavDuration, MinWav, CtlMaxWav)
           val == IF activeTab = "show" /\ showInterval > 0 THEN SnapToInterval(v)
                                                            ELSE v
       IN  wavDuration' = IF val = 0 THEN MinWav ELSE val
    /\ UNCHANGED <<activeTab, storeVars, showInterval, animateDuration, gain,
                   timeVars, audioVars, wavFile, wavAlert>>

\* the typed value of Master Gain, in percent (lines 718-724)
TypeGain(entry) ==
    /\ NotDragging
    /\ entry \in Entries
    /\ gain' = HandleBlur(entry, gain, 0, GainUnit)
    /\ UNCHANGED <<activeTab, storeVars, showInterval, animateDuration, wavDuration,
                   timeVars, audioVars, wavFile, wavAlert>>

\* the Master Gain slider (line 717): min 0, max 1, step 0.01
SetGain(v) ==
    /\ NotDragging
    /\ v \in 0..GainUnit
    /\ gain' = v
    /\ UNCHANGED <<activeTab, storeVars, showInterval, animateDuration, wavDuration,
                   timeVars, audioVars, wavFile, wavAlert>>

(* --------------------------- specification ---------------------------- *)

Init ==
    /\ activeTab = "single"
    /\ singleFile = NoFile
    /\ showFiles = <<>>
    /\ playlist = <<>>
    /\ singleSignal = NoSignal
    /\ isProcessing = FALSE
    /\ isPlaying = FALSE
    /\ showInterval = InitInterval
    /\ animateDuration = InitAnimate
    /\ wavDuration = InitWav
    /\ gain = InitGain
    /\ currentTime = 0
    /\ currentTimeRef = 0
    /\ sinceLastTime = 0
    /\ draggedIndex = NoIndex
    /\ audioGraph = <<>>
    /\ scriptNodeRef = 0
    /\ gainNodeRef = FALSE
    /\ pending = NoPending
    /\ wavFile = NoWav
    /\ wavAlert = NoAlert

Next ==
    \/ \E tab \in TABS : SelectTab(tab)
    \/ \E f \in Files : HandleSingleFileChange(f)
    \/ \E f \in Files : HandleShowFilesChange(f)
    \/ \E files \in DropLists : HandleDrop(files)
    \/ \E index \in 0..(MaxAssets - 1) : RemoveShowFile(index)
    \/ ConvertSingleStart
    \/ \E ok \in BOOLEAN : ConvertSingleFinish(ok)
    \/ ConvertShowStart
    \/ \E okIds \in SUBSET Files : ConvertShowFinish(okIds)
    \/ \E index \in 0..(MaxAssets - 1) : OnDragStart(index)
    \/ \E index \in 0..(MaxAssets - 1) : OnDragOverItem(index)
    \/ OnDragEnd
    \/ TogglePlay
    \/ \E k \in 1..Len(audioGraph) : AudioProcess(k)
    \/ Tick
    \/ Elapse
    \/ \E time \in 0..Secs(MaxTime + MaxAssets * InitInterval) : ScrubTime(time)
    \/ \E v \in 0..MaxAnimate : SetAnimateDuration(v)
    \/ \E val \in MinInterval..MaxInterval : UpdateShowInterval(val)
    \/ \E v \in MinWav..MaxWav : SetWavDuration(v)
    \/ \E entry \in Entries : TypeAnimateDuration(entry)
    \/ \E entry \in Entries : TypeShowInterval(entry)
    \/ \E entry \in Entries : TypeWavDuration(entry)
    \/ \E entry \in Entries : TypeGain(entry)
    \/ \E v \in TypedNumbers : SetGain(v)
    \/ \E allocated \in BOOLEAN : DownloadWav(allocated)

\* the program: every handler, from the state after construction
Spec == Init /\ [][Next]_vars

(***************************************************************************)
(* The claims are checked under restrictions of Spec, each keeping         *)
(* the handlers that write the variables its claims read.                  *)
(*                                                                         *)
(* SpecSession: the signal store and the audio session, from Init.  The    *)
(* handlers left out (timeline, scrubber, configuration, export) write     *)
(* only timeVars, configVars and wavFile, which no guard of a handler kept *)
(* reads.                                                                  *)
(***************************************************************************)
NextSession ==
    \/ \E tab \in TABS : SelectTab(tab)
    \/ \E f \in Files : HandleSingleFileChange(f)
    \/ \E f \in Files : HandleShowFilesChange(f)
    \/ \E files \in DropLists : HandleDrop(files)
    \/ \E index \in 0..(MaxAssets - 1) : RemoveShowFile(index)
    \/ ConvertSingleStart
    \/ \E ok \in BOOLEAN : ConvertSingleFinish(ok)
    \/ ConvertShowStart
    \/ \E okIds \in SUBSET Files : ConvertShowFinish(okIds)
    \/ \E index \in 0..(MaxAssets - 1) : OnDragStart(index)
    \/ \E index \in 0..(MaxAssets - 1) : OnDragOverItem(index)
    \/ OnDragEnd
    \/ TogglePlay
    \/ \E k \in 1..Len(audioGraph) : AudioProcess(k)

SpecSession == Init /\ [][NextSession]_vars

\* every order of every set of files
RECURSIVE Orders(_)
Orders(S) ==
    IF S = {} THEN {<<>>}
    ELSE UNION {{<<f>> \o o : o \in Orders(S \ {f})} : f \in S}

FileLists == UNION {Orders(S) : S \in SUBSET Files}

\* the store after the user selected and converted assets: a single file
\* with its signal or none, a show list with its playlist or none; the
\* position is 0 after a conversion (lines 194-195, 232-233)
InitConverted ==
    /\ \E f \in Files \cup {NoFile} :
          /\ singleFile = f
          /\ singleSignal = IF f = NoFile THEN NoSignal
                                          ELSE ProcessedSignal(SingleId, f)
    /\ \E l \in FileLists :
          /\ showFiles = [k \in 1..Len(l) |-> AssetFile(l[k])]
          /\ playlist = [k \in 1..Len(l) |-> ProcessedSignal(l[k], l[k])]
    /\ isProcessing = FALSE
    /\ draggedIndex = NoIndex
    /\ pending = NoPending
    /\ isPlaying = FALSE
    /\ audioGraph = <<>>
    /\ scriptNodeRef = 0
    /\ gainNodeRef = FALSE
    /\ currentTime = 0
    /\ currentTimeRef = 0
    /\ sinceLastTime = 0
    /\ wavFile = NoWav
    /\ wavAlert = NoAlert

(***************************************************************************)
(* SpecTimeline: the timeline, the configuration and the audio session     *)
(* over a converted store.                                                 *)
(***************************************************************************)
InitTimeline ==
    /\ InitConverted
    /\ activeTab \in TABS
    /\ showInterval = InitInterval
    /\ animateDuration = InitAnimate
    /\ wavDuration = InitWav
    /\ gain = InitGain

NextTimeline ==
    \/ \E tab \in TABS : SelectTab(tab)
    \/ TogglePlay
    \/ \E k \in 1..Len(audioGraph) : AudioProcess(k)
    \/ Tick
    \/ Elapse
    \/ \E time \in 0..Secs(MaxTime + MaxAssets * InitInterval) : ScrubTime(time)
    \/ \E v \in 0..MaxAnimate : SetAnimateDuration(v)
    \/ \E val \in MinInterval..MaxInterval : UpdateShowInterval(val)

SpecTimeline == InitTimeline /\ [][NextTimeline]_vars

(***************************************************************************)
(* SpecExport: downloadWav, a function of the tab, the store and the       *)
(* configuration, applied to every such input within the bounds.           *)
(***************************************************************************)
InitExport ==
    /\ InitConverted
    /\ activeTab \in TABS
    /\ showInterval \in (MinInterval..MaxInterval) \cup {InitInterval}
    /\ animateDuration \in 0..MaxAnimate
    /\ wavDuration \in (MinWav..MaxWav) \cup {InitWav}
    /\ gain = InitGain

NextExport == \E allocated \in BOOLEAN : DownloadWav(allocated)

SpecExport == InitExport /\ [][NextExport]_vars

(***************************************************************************)
(* SpecLoad: asset loading against the running timeline, from Init: the    *)
(* tab buttons, file selection, the conversions, the play button and the   *)
(* timeline tick.                                                          *)
(***************************************************************************)
NextLoad ==
    \/ \E tab \in TABS : SelectTab(tab)
    \/ \E f \in Files : HandleSingleFileChange(f)
    \/ \E f \in Files : HandleShowFilesChange(f)
    \/ ConvertSingleStart
    \/ \E ok \in BOOLEAN : ConvertSingleFinish(ok)
    \/ ConvertShowStart
    \/ \E okIds \in SUBSET Files : ConvertShowFinish(okIds)
    \/ TogglePlay
    \/ Tick
    \/ Elapse

SpecLoad == Init /\ [][NextLoad]_vars

(***************************************************************************)
(* SpecConfig: the configuration controls, sliders and typed values, and   *)
(* the tab buttons, from Init.                                             *)
(***************************************************************************)
NextConfig ==
    \/ \E tab \in TABS : SelectTab(tab)
    \/ \E v \in 0..MaxAnimate : SetAnimateDuration(v)
    \/ \E val \in MinInterval..MaxInterval : UpdateShowInterval(val)
    \/ \E v \in MinWav..MaxWav : SetWavDuration(v)
    \/ \E v \in TypedNumbers : SetGain(v)
    \/ \E entry \in Entries : TypeAnimateDuration(entry)
    \/ \E entry \in Entries : TypeShowInterval(entry)
    \/ \E entry \in Entries : TypeWavDuration(entry)
    \/ \E entry \in Entries : TypeGain(entry)

SpecConfig == Init /\ [][NextConfig]_vars

(***************************************************************************)
(* SpecExportLimit: downloadWav at the size limit: the durations of        *)
(* SpecExport, the largest duration the size check lets through, the next  *)
(* one and the largest the control accepts.  The largest accepted duration *)
(* is exported for a single signal.                                        *)
(***************************************************************************)
InitExportLimit ==
    /\ InitConverted
    /\ activeTab \in TABS
    /\ showInterval = InitInterval
    /\ animateDuration \in {0, InitAnimate}
    /\ gain = InitGain
    /\ wavDuration \in (MinWav..MaxWav) \cup
                        {InitWav, MaxWavSeconds, MaxWavSeconds + 1, CtlMaxWav}
    /\ wavDuration = MaxWavSeconds =>
            /\ activeTab = "single"
            /\ singleFile = 1
            /\ showFiles = <<>>

SpecExportLimit == InitExportLimit /\ [][NextExport]_vars

(***************************************************************************)
(* SpecExportSession: downloadWav during a session: the export, the play   *)
(* button, the audio callback, the timeline, the scrubber and the gain     *)
(* slider over a converted store.  The tab, the store and the three        *)
(* durations stay as drawn.                                                *)
(***************************************************************************)
InitExportSession ==
    /\ InitConverted
    /\ activeTab \in TABS
    /\ showInterval = MinInterval
    /\ animateDuration \in {InitAnimate, MinInterval}
    /\ wavDuration \in MinWav..MaxWav
    /\ gain = InitGain

NextExportSession ==
    \/ \E allocated \in BOOLEAN : DownloadWav(allocated)
    \/ TogglePlay
    \/ \E k \in 1..Len(audioGraph) : AudioProcess(k)
    \/ Tick
    \/ Elapse
    \/ \E time \in 0..Secs(MaxTime + MaxAssets * InitInterval) : ScrubTime(time)
    \/ \E v \in {0, InitGain} : SetGain(v)

SpecExportSession == InitExportSession /\ [][NextExportSession]_vars

(***************************************************************************)
(* SpecService: the conversions against a service that can answer          *)
(* anything, from Init: the tab buttons, file selection, the conversions,  *)
(* the play button and the audio callback.                                 *)
(***************************************************************************)
NextService ==
    \/ \E tab \in TABS : SelectTab(tab)
    \/ \E f \in Files : HandleSingleFileChange(f)
    \/ \E f \in Files : HandleShowFilesChange(f)
    \/ ConvertSingleStart
    \/ \E answer \in ServiceAnswers : ConvertSingleAnswer(answer)
    \/ ConvertShowStart
    \/ \E answers \in [Files -> ServiceAnswers] : ConvertShowAnswer(answers)
    \/ TogglePlay
    \/ \E k \in 1..Len(audioGraph) : AudioProcess(k)

SpecService == Init /\ [][NextService]_vars

(***************************************************************************)
(* SpecLongExport: the WAV Export controls and downloadWav over a          *)
(* converted store, from the initial configuration.                        *)
(***************************************************************************)
NextLongExport ==
    \/ \E v \in MinWav..MaxWav : SetWavDuration(v)
    \/ \E entry \in Entries : TypeWavDuration(entry)
    \/ \E allocated \in BOOLEAN : DownloadWav(allocated)

SpecLongExport == InitTimeline /\ [][NextLongExport]_vars

(***************************************************************************)
(* SpecPlayback: playback left to run, over a converted store: the tab     *)
(* buttons, the play button, the Interval control, the timeline tick and   *)
(* the wall clock; no seek.  While a session plays, requestAnimationFrame  *)
(* keeps scheduling the tick (lines 363-365) and the clock keeps running:  *)
(* both are weakly fair.                                                   *)
(***************************************************************************)
NextPlayback ==
    \/ \E tab \in TABS : SelectTab(tab)
    \/ TogglePlay
    \/ Tick
    \/ Elapse
    \/ \E val \in MinInterval..MaxInterval : UpdateShowInterval(val)

SpecPlayback ==
    InitTimeline /\ [][NextPlayback]_vars /\ WF_vars(Tick) /\ WF_vars(Elapse)

(* ------------------------------- claims ------------------------------- *)

\* the frame indices of the export and the positions the resolvers are
\* compared at
ExportFrames == 0..(totalSamples - 1)
Positions == 0..Secs(MaxTime + MaxAssets * InitInterval)

\* the real-time renderer played uninterrupted from PlayPosition 0 and
\* ScanCursor 0 in the current render: at frame i the cursor is i and the
\* position is i ticks, wrapped at the show's total as the timeline wraps it
RealTimePosition(i) ==
    IF activeTab = "show" /\ totalShowDuration > 0
    THEN i % Secs(totalShowDuration) ELSE i

RealTimeFrame(i) ==
    LET node == [CurrentClosure EXCEPT !.phase = i]
        f == AudioBlock(node, RealTimePosition(i))[0]
    IN  <<Quantize(f[1]), Quantize(f[2])>>

\* C1: every frame downloadWav writes is the frame the real-time renderer
\* emits at that frame when played from position 0 and cursor 0.  Stated for
\* the frames that start an audio block, where the renderer's position is
\* exactly i / sampleRate (within a block it keeps the block's first
\* position).
C1_ExportMatchesRealTime ==
    wavFile # NoWav =>
        \A i \in DOMAIN wavFile.frames :
            i % BlockSize = 0 => wavFile.frames[i] = RealTimeFrame(i)

\* C2: for every export frame i, downloadWav, the audio callback and the
\* visualization resolve the same signal and the same progress, the latter
\* two at position i / sampleRate (Single) or that position modulo the
\* show's total (Show, playlist not empty).
C2_ConsumersAgree ==
    (activeTab = "show" => Len(playlist) > 0) =>
        \A i \in ExportFrames :
            LET pos == IF activeTab = "single" THEN i
                       ELSE i % Secs(totalShowDuration)
                e == ExportResolve(i)
                a == AudioResolve(CurrentClosure, pos)
                v == VisResolve(pos)
            IN  /\ e.signal = a.signal
                /\ e.signal = v.signal
                /\ SameNumber(e.progress, a.progress)
                /\ SameNumber(e.progress, v.progress)

C2_Witness ==
    /\ wavFile # NoWav
    /\ activeTab = "show"
    /\ Len(playlist) = MaxAssets
    /\ animateDuration > 0
    /\ wavDuration > totalShowDuration

\* C3: in Show mode with a playlist of n > 0 signals the index computed by
\* the audio callback and the visualization at every position, and by the
\* exporter at every frame, is in [0, n).
C3_IndexInPlaylist ==
    (activeTab = "show" /\ Len(playlist) > 0) =>
        /\ \A i \in ExportFrames : ExportIndex(i) \in 0..(Len(playlist) - 1)
        /\ \A t \in Positions :
              /\ AudioIndex(CurrentClosure, t) \in 0..(Len(playlist) - 1)
              /\ VisIndex(t) \in 0..(Len(playlist) - 1)

C3_Witness ==
    /\ wavFile # NoWav
    /\ activeTab = "show"
    /\ Len(playlist) = MaxAssets
    /\ wavDuration > totalShowDuration

\* C4: the progress computed by the visualization, by every connected audio
\* callback and by the exporter is a number in [0, 1].
C4_ProgressInUnitInterval ==
    hasData =>
        /\ InUnitInterval(VisResolve(currentTime).progress)
        /\ \A k \in 1..Len(audioGraph) :
              InUnitInterval(AudioResolve(audioGraph[k], currentTimeRef).progress)
        /\ \A i \in ExportFrames : InUnitInterval(ExportResolve(i).progress)

\* C5: when animateDuration is 0 the progress is 1 at every position: the
\* visualization traces the whole signal and a callback whose
\* animateDuration is 0 gates no frame.
C5_ZeroDurationRevealsAll ==
    /\ (hasData /\ animateDuration = 0) =>
          LET v == VisResolve(currentTime)
          IN  /\ v.progress = One
              /\ VisTraced(v.signal, v.progress) = DOMAIN v.signal.left
    /\ \A k \in 1..Len(audioGraph) :
          audioGraph[k].animateDuration = 0 =>
              \A i \in 0..(BlockSize - 1) :
                  AudioBlock(audioGraph[k], currentTimeRef)[i] # Silence

\* C6: in Show mode PlayPosition never exceeds playlistLength * showInterval,
\* and a tick whose updated position reaches that total stores 0.  Stated
\* for a playlist that is not empty.
C6_PositionWithinShow ==
    [][/\ (activeTab' = "show" /\ Len(playlist') > 0) =>
              currentTimeRef' <= Secs(Len(playlist') * showInterval')
       /\ (Tick /\ activeTab = "show"
                /\ currentTimeRef + sinceLastTime >= Secs(totalShowDuration)) =>
              currentTimeRef' = 0]_vars

C8_GateIsVisibleLen ==
    \A k \in 1..Len(audioGraph) :
        LET node == audioGraph[k]
            r == AudioResolve(node, currentTimeRef)
        IN  r.signal # NoSignal =>
                \A i \in 0..(BlockSize - 1) :
                    LET idx == (node.phase + i) % SigLength(r.signal)
                        out == AudioBlock(node, currentTimeRef)[i]
                    IN  IF idx \in VisTraced(r.signal, r.progress)
                        THEN out = Sample(r.signal, idx)
                        ELSE out = Silence

\* C9: the next invocation of a connected callback resolves its signal and
\* progress from the current playlist and configuration, as the
\* visualization does at the same position.  Stated for Show mode with a
\* playlist that is not empty, where the visualization resolves a signal.
C9_CallbackReadsCurrentStore ==
    (activeTab = "show" /\ Len(playlist) > 0) =>
        \A k \in 1..Len(audioGraph) :
            LET a == AudioResolve(audioGraph[k], currentTimeRef)
                v == VisResolve(currentTimeRef)
            IN  /\ a.signal = v.signal
                /\ SameNumber(a.progress, v.progress)

\* C10: at most one callback node is connected, isPlaying holds exactly when
\* one is, and after stopAudio none is (so none is invoked: AudioProcess
\* runs connected nodes only).
C10_OneNodeWhilePlaying ==
    /\ Len(audioGraph) <= 1
    /\ isPlaying <=> Len(audioGraph) = 1
    /\ isPlaying <=> scriptNodeRef # 0

C10_Witness ==
    /\ gainNodeRef
    /\ ~isPlaying
    /\ audioGraph = <<>>
    /\ hasData

\* C11: stopping playback retains the position or, with a tab button,
\* resets it to 0; while playback is stopped the position changes only by a
\* seek or a reset to 0; playback resumes with the tick clock restarted, so that the
\* first tick adds the time elapsed since the resume; and while playing a
\* step that is neither a seek nor a reset adds the time elapsed since the
\* last tick or the play start.
C11_StoppedPositionRetained ==
    [][/\ (~isPlaying /\ currentTimeRef' # currentTimeRef) =>
              \/ \E time \in Positions : ScrubTime(time)
              \/ currentTimeRef' = 0
       /\ (~isPlaying /\ isPlaying') =>
              /\ sinceLastTime' = 0
              /\ currentTimeRef' = currentTimeRef
       /\ (isPlaying /\ ~isPlaying') =>
              currentTimeRef' = currentTimeRef \/ currentTimeRef' = 0
       /\ (isPlaying /\ currentTimeRef' # currentTimeRef) =>
              \/ \E time \in Positions : ScrubTime(time)
              \/ currentTimeRef' = 0
              \/ currentTimeRef' = currentTimeRef + sinceLastTime]_vars

\* playback resumed at a retained position after time passed while stopped
C11_Witness ==
    /\ isPlaying
    /\ currentTimeRef > 0
    /\ sinceLastTime = 0
    /\ Len(audioGraph) = 1
    /\ audioGraph[1].phase = 0

\* C12: the cursor of a running session changes only by an invocation of its
\* callback; a new session starts with cursor 0; a step that changes the
\* position (a seek, a tick, a wrap) or the configuration while playback
\* goes on leaves every cursor as it is.
C12_CursorOnlyByCallback ==
    [][/\ (isPlaying /\ isPlaying') =>
              /\ Len(audioGraph') = Len(audioGraph)
              /\ \A k \in 1..Len(audioGraph) :
                    \/ audioGraph'[k].phase = audioGraph[k].phase
                    \/ AudioProcess(k)
       /\ (~isPlaying /\ isPlaying') => audioGraph'[scriptNodeRef'].phase = 0
       /\ (isPlaying' /\ currentTimeRef' # currentTimeRef) => audioGraph' = audioGraph
       /\ (isPlaying' /\ <<showInterval, animateDuration>>' #
                            <<showInterval, animateDuration>>) =>
              audioGraph' = audioGraph]_vars

\* a session whose cursor has advanced, after the position was moved back to
\* the start of the show and the configuration was changed
C12_Witness ==
    /\ isPlaying
    /\ activeTab = "show"
    /\ currentTimeRef < Secs(showInterval)
    /\ \E k \in 1..Len(audioGraph) :
          /\ audioGraph[k].phase = MaxBlocks * BlockSize
          /\ audioGraph[k].showInterval # showInterval
          /\ audioGraph[k].animateDuration # animateDuration

\* C13: after a tab button, a successful convertSingle or a completed
\* convertShow the position is 0 and no session is left running whose ticks
\* would move it.
C13_PositionZeroAfterLoad ==
    [][((\E tab \in TABS : SelectTab(tab))
          \/ ConvertSingleFinish(TRUE)
          \/ (\E okIds \in SUBSET Files : ConvertShowFinish(okIds))) =>
              /\ currentTimeRef' = 0
              /\ currentTime' = 0
              /\ ~isPlaying']_vars

\* C14: a tick that runs in Show mode with an empty playlist does not wrap:
\* it stores the position advanced by the elapsed time.
C14_EmptyShowNeverWraps ==
    [][(Tick /\ activeTab = "show" /\ Len(playlist) = 0) =>
            currentTimeRef' = currentTimeRef + sinceLastTime]_vars

\* C15: whenever the mode is Show, animateDuration <= showInterval.
C15_AnimateWithinInterval ==
    activeTab = "show" => animateDuration <= showInterval

\* C16: after every sequence of configuration updates, typed entries that
\* are not numbers or are out of range included, showInterval > 0,
\* wavDuration >= 1, gain is in [0, 1] (0 to GainUnit percent) and
\* animateDuration >= 0.
C16_ConfigurationValid ==
    /\ showInterval > 0
    /\ wavDuration >= 1
    /\ gain \in 0..GainUnit
    /\ animateDuration >= 0

\* every setting at a limit of its control, where out-of-range entries end
C16_Witness ==
    /\ activeTab = "show"
    /\ showInterval = CtlMaxInterval
    /\ animateDuration = 0
    /\ gain = 0
    /\ wavDuration = MinWav

\* dataSize = sampleRate * wavDuration * 4 at the source's rate, in thousands
\* of bytes (dataSize is a multiple of 1000, so it exceeds 0xFFFFFFFF - 44 =
\* 4294967251 exactly when its thousands exceed 4294967)
DataSizeK(duration) == (SourceRate \div 1000) * duration * 4

ExceedsLimit == DataSizeK(wavDuration) > SizeLimitK

\* C17: a run of downloadWav with dataSize above 0xFFFFFFFF - 44 is rejected
\* for size whether or not a buffer could be allocated, and hands over
\* nothing; a run with dataSize not above it is not rejected for size, and
\* hands over the file unless the allocation fails.
C17_SizeCheckedBeforeAllocation ==
    [][(\E allocated \in BOOLEAN : DownloadWav(allocated)) =>
          /\ ExceedsLimit => (wavAlert' = LimitAlert /\ wavFile' = wavFile)
          /\ ~ExceedsLimit =>
                /\ wavAlert' \in {NoAlert, MemoryAlert}
                /\ wavAlert' = NoAlert => wavFile' = WavOutput]_vars

\* the smallest duration above the limit, rejected
C17_Witness ==
    /\ wavDuration = MaxWavSeconds + 1
    /\ wavAlert = LimitAlert
    /\ wavFile = NoWav

\* C18: the alert of a size rejection names the limit that was hit and the
\* largest duration that can be exported.
C18_RejectionNamesLimitAndDuration ==
    wavAlert = LimitAlert =>
        /\ wavAlert.limit = FileLimitGB
        /\ wavAlert.duration = MaxWavSeconds

\* C19: a run of downloadWav hands over a file of 44 + dataSize bytes with
\* every frame of the duration written, or raises an alert and hands over
\* nothing; it changes neither the position nor the playback state nor the
\* signal store.
C19_CompleteOrNothing ==
    [][/\ wavFile' # wavFile =>
              /\ wavAlert' = NoAlert
              /\ wavFile'.byteLength = 44 + wavFile'.dataSize
              /\ DOMAIN wavFile'.frames = 0..(sampleRate * wavDuration - 1)
              /\ wavFile'.dataSize = 4 * Cardinality(DOMAIN wavFile'.frames)
       /\ wavAlert' # NoAlert => wavFile' = wavFile
       /\ UNCHANGED <<activeTab, storeVars, timeVars, audioVars>>]_vars

\* a run that failed in generation and handed over nothing
C19_Witness ==
    /\ hasData
    /\ wavAlert = MemoryAlert
    /\ wavFile = NoWav

\* C20: an exported file has dataSize = sampleRate * wavDuration * 2 * 2, a
\* RIFF chunk size field of 36 + dataSize, a data chunk size field of
\* dataSize, a length of 44 + dataSize and sampleRate * wavDuration frames;
\* at the source's rate one second is 192000 data bytes.
C20_HeaderMatchesData ==
    /\ wavFile # NoWav =>
          /\ wavFile.dataSize = sampleRate * wavDuration * 2 * 2
          /\ wavFile.riffSize = 36 + wavFile.dataSize
          /\ wavFile.byteLength = 44 + wavFile.dataSize
          /\ DOMAIN wavFile.frames = 0..(sampleRate * wavDuration - 1)
    /\ SourceRate * 1 * Channels * BytesPerSample = 192000

C20_Witness ==
    /\ wavFile # NoWav
    /\ wavAlert = NoAlert
    /\ wavDuration = MinWav
    /\ activeTab = "show"

\* C21: the file a run of downloadWav hands over is the one function of the
\* tab, the signals, showInterval, animateDuration and wavDuration: with
\* these fixed, the file of an earlier run equals the file a run would hand
\* over now, whatever the position, the scan cursors, the gain and the
\* playback state were then and are now.
C21_ExportDeterministic ==
    wavFile # NoWav => wavFile = WavOutput

\* a file exported at rest, compared while playback runs at another
\* position, cursor and gain
C21_Witness ==
    /\ wavFile # NoWav
    /\ isPlaying
    /\ currentTimeRef > 0
    /\ gain = 0
    /\ \E k \in 1..Len(audioGraph) : audioGraph[k].phase > 0

\* a stored signal as the input contract has it: both arrays present and of
\* equal length
WellFormed(sig) ==
    /\ sig.left # Undefined
    /\ sig.right # Undefined
    /\ Cardinality(DOMAIN sig.left) = Cardinality(DOMAIN sig.right)

\* C22: singleSignal, when set, and every playlist entry have left and
\* right arrays, of equal length.
C22_StoredSignalsWellFormed ==
    /\ singleSignal # NoSignal => WellFormed(singleSignal)
    /\ \A k \in 1..Len(playlist) : WellFormed(playlist[k])

\* C23: no connected audio callback throws when it is invoked.
C23_CallbackNeverRaises ==
    \A k \in 1..Len(audioGraph) : ~AudioRaises(audioGraph[k], currentTimeRef)

\* C24: in Show mode a duration set through the WAV Export slider or typed
\* value is a whole multiple of showInterval, and a duration that is one
\* stays one while the mode is Show, whatever is changed next (showInterval
\* included), so that it is one at the time of export.
C24_ExportSnappedToSegments ==
    [][/\ (/\ activeTab = "show"
           /\ \/ \E v \in MinWav..MaxWav : SetWavDuration(v)
              \/ \E entry \in Entries : TypeWavDuration(entry)) =>
                 wavDuration' % showInterval' = 0
       /\ (/\ activeTab = "show"
           /\ activeTab' = "show"
           /\ wavDuration % showInterval = 0) =>
                 wavDuration' % showInterval' = 0]_vars

\* C25: a run of downloadWav for a duration within the range of the WAV
\* Export controls, 1 to 86400 seconds, is not rejected for size: dataSize
\* at 48000 Hz, 2 channels and 16 bit does not exceed 0xFFFFFFFF - 44.
C25_AcceptedDurationsPassSizeCheck ==
    [][(/\ \E allocated \in BOOLEAN : DownloadWav(allocated)
        /\ wavDuration \in MinWav..CtlMaxWav) =>
            /\ ~ExceedsLimit
            /\ wavAlert' # LimitAlert]_vars

\* The reference formulas, on positions in ticks and durations in seconds:
\* floor(position / showInterval) mod playlistLength, and clamp(t /
\* animateDuration, 0, 1) for t >= 0 and animateDuration > 0.
RefIndex(t, interval, n) == (t \div Secs(interval)) % n

RefProgress(t, d) ==
    IF t >= Secs(d) THEN One ELSE [num |-> t, den |-> Secs(d)]

\* whether a resolution r is the reference's for position t in the given
\* mode, store and configuration
ResolvesAsReference(r, tab, single, list, interval, d, t) ==
    IF tab = "single"
    THEN /\ r.signal = single
         /\ SameNumber(r.progress, RefProgress(t, d))
    ELSE /\ r.signal = list[RefIndex(t, interval, Len(list)) + 1]
         /\ SameNumber(r.progress, RefProgress(t % Secs(interval), d))

\* a signal of n samples and the closure of a session over given inputs
ScenarioSignal(id, n) ==
    [id |-> id, name |-> id, left |-> [k \in 0..(n - 1) |-> k + 1],
     right |-> [k \in 0..(n - 1) |-> 0 - 1]]

ScenarioNode(tab, single, list, interval, d) ==
    [activeTab |-> tab, singleSignal |-> single, playlist |-> list,
     animateDuration |-> d, showInterval |-> interval, phase |-> 0]

\* the samples of a cycle of the scan that the audio callback lets through
AudioAudible(sig, progress) ==
    {k \in 0..(SigLength(sig) - 1) : AudioFrame(sig, progress, k) # Silence}

\* The two scenarios.  Single, 100 samples, animateDuration 2: position 1
\* gives progress 0.5 and the first 50 samples, position 2 progress 1 and all
\* 100, position 5 progress 1.  Show, 3 assets, showInterval 5,
\* animateDuration 1, position 12: index 2, progress 1.
ReferenceScenarios ==
    LET sig == ScenarioSignal(SingleId, 100)
        single == ScenarioNode("single", sig, <<>>, InitInterval, 2)
        list == [k \in 1..3 |-> ScenarioSignal(k, 2)]
        show == ScenarioNode("show", NoSignal, list, 5, 1)
        at(s) == AudioResolve(single, Secs(s))
    IN  /\ at(1).signal = sig
        /\ SameNumber(at(1).progress, [num |-> 1, den |-> 2])
        /\ VisTraced(sig, at(1).progress) = 0..49
        /\ AudioAudible(sig, at(1).progress) = 0..49
        /\ SameNumber(at(2).progress, One)
        /\ VisTraced(sig, at(2).progress) = 0..99
        /\ AudioAudible(sig, at(2).progress) = 0..99
        /\ SameNumber(at(5).progress, One)
        /\ AudioIndex(show, Secs(12)) = 2
        /\ Secs(12) % Secs(show.showInterval) = Secs(2)
        /\ AudioResolve(show, Secs(12)).signal = list[3]
        /\ SameNumber(AudioResolve(show, Secs(12)).progress, One)

\* C26: for every position, with animateDuration > 0 (and a playlist that
\* is not empty in Show mode), the Visualization Loop and every connected
\* audio callback resolve the signal and the progress of the reference
\* formulas from the mode, store and configuration they read; the two
\* scenarios evaluate as stated.  (animateDuration = 0 is the subject of C4
\* and C5.)
C26_ResolutionMatchesReference ==
    /\ ReferenceScenarios
    /\ \A t \in Positions :
          /\ (animateDuration > 0 /\ (activeTab = "show" => Len(playlist) > 0)) =>
                ResolvesAsReference(VisResolve(t), activeTab, singleSignal, playlist,
                                    showInterval, animateDuration, t)
          /\ \A k \in 1..Len(audioGraph) :
                LET node == audioGraph[k]
                IN  (/\ node.animateDuration > 0
                     /\ node.activeTab = "show" => Len(node.playlist) > 0) =>
                        ResolvesAsReference(AudioResolve(node, t), node.activeTab,
                                            node.singleSignal, node.playlist,
                                            node.showInterval, node.animateDuration, t)

\* a show playing in its second segment, part of the signal revealed
C26_Witness ==
    /\ activeTab = "show"
    /\ isPlaying
    /\ Len(playlist) = 2
    /\ animateDuration > 0
    /\ currentTimeRef = currentTime
    /\ VisIndex(currentTime) = 1
    /\ AudioIndex(audioGraph[scriptNodeRef], currentTimeRef) = 1
    /\ ~SameNumber(VisResolve(currentTime).progress, One)
    /\ VisResolve(currentTime).progress.num > 0

\* a show with a playlist is playing
ShowPlaying == isPlaying /\ activeTab = "show" /\ Len(playlist) > 0

\* C27: a tick in Single mode stores the position advanced by the elapsed
\* time, never a smaller one; a tick of a playing show with a playlist
\* stores either the advanced position or exactly 0, and the stored
\* position is in [0, playlistLength * showInterval); and a show that keeps
\* playing is at position 0 infinitely often and away from it infinitely
\* often: it loops.
C27_AdvancesAndLoops ==
    /\ [][Tick =>
            /\ activeTab = "single" =>
                  /\ currentTimeRef' = currentTimeRef + sinceLastTime
                  /\ currentTimeRef' >= currentTimeRef
            /\ ShowPlaying =>
                  /\ currentTimeRef' \in {0, currentTimeRef + sinceLastTime}
                  /\ currentTimeRef' >= 0
                  /\ currentTimeRef' < Secs(totalShowDuration)
            /\ currentTime' = currentTimeRef']_vars
    /\ <>[]ShowPlaying => ([]<>(currentTimeRef = 0) /\ []<>(currentTimeRef > 0))

\* a playing show one tick short of its end, with time elapsed: the next
\* tick wraps
C27_Witness ==
    /\ ShowPlaying
    /\ Len(playlist) = 2
    /\ currentTimeRef = Secs(totalShowDuration) - 1
    /\ sinceLastTime = MaxDelta

\* the samples of the stored signal that frame i of the export reads (lines
\* 489, 492), in units of 1/SampleUnit
ExportInput(i) ==
    LET sig == ExportResolve(i).signal
        k == ExportSigIdx(i) % SigLength(sig)
    IN  <<sig.left[k], sig.right[k]>>

\* what the claim requires of a written value out for the input value v
ClampedQuantization(v, out) ==
    /\ out \in (0 - 32768)..32767
    /\ v <= 0 - SampleUnit => out = 0 - 32768
    /\ v >= SampleUnit => out = 32767
    /\ (v < 0 <=> out < 0) /\ (v > 0 <=> out > 0)

\* C28: every value of an exported file is in [-32768, 32767]; a sample at
\* or below -1 is written as -32768, one at or above 1 as 32767, and none
\* changes its sign (no wrap-around); a gated frame is written as 0, 0.  The
\* same holds of the quantization of every value up to three times full
\* scale.
C28_SamplesClamped ==
    /\ \A v \in (0 - 3 * SampleUnit)..(3 * SampleUnit) :
          ClampedQuantization(v, Quantize(v))
    /\ wavFile # NoWav =>
          \A i \in DOMAIN wavFile.frames :
              IF ExportAudible(i)
              THEN /\ ClampedQuantization(ExportInput(i)[1], wavFile.frames[i][1])
                   /\ ClampedQuantization(ExportInput(i)[2], wavFile.frames[i][2])
              ELSE wavFile.frames[i] = <<0, 0>>

\* an exported file with a sample above full scale, a sample below negative
\* full scale and a gated frame
C28_Witness ==
    /\ wavFile # NoWav
    /\ \E i \in DOMAIN wavFile.frames :
          /\ ExportAudible(i)
          /\ ExportInput(i)[1] > SampleUnit
          /\ wavFile.frames[i][1] = 32767
    /\ \E i \in DOMAIN wavFile.frames :
          /\ ExportAudible(i)
          /\ ExportInput(i)[2] < 0 - SampleUnit
          /\ wavFile.frames[i][2] = 0 - 32768
    /\ \E i \in DOMAIN wavFile.frames : ~ExportAudible(i)

\* the place of the asset id in the show list, 0 when it is not in it
PlaceInShowFiles(id) ==
    IF \E j \in 1..Len(showFiles) : showFiles[j].id = id
    THEN CHOOSE j \in 1..Len(showFiles) : showFiles[j].id = id
    ELSE 0

\* C29: singleSignal, when set, is the conversion of the selected single
\* file; every playlist entry is the conversion of an asset of the current
\* show list, and the entries are in the order of the list (an asset whose
\* conversion failed has no entry).
C29_StoreReflectsSelection ==
    /\ singleSignal # NoSignal =>
          /\ singleFile # NoFile
          /\ singleSignal = ProcessedSignal(SingleId, singleFile)
    /\ \A k \in 1..Len(playlist) :
          LET j == PlaceInShowFiles(playlist[k].id)
          IN  /\ j # 0
              /\ playlist[k] = ProcessedSignal(showFiles[j].id, showFiles[j].file)
    /\ \A k1, k2 \in 1..Len(playlist) :
          k1 < k2 => PlaceInShowFiles(playlist[k1].id) < PlaceInShowFiles(playlist[k2].id)

\* C30: while isPlaying holds, the current mode has data (singleSignal set
\* in Single mode, a playlist that is not empty in Show mode), a callback is
\* connected, and the signal or playlist its closure reads is the one in the
\* store.
C30_PlaysOnlyActiveSignal ==
    isPlaying =>
        /\ hasData
        /\ scriptNodeRef # 0
        /\ LET node == audioGraph[scriptNodeRef]
           IN  /\ node.activeTab = activeTab
               /\ IF activeTab = "single" THEN node.singleSignal = singleSignal
                                           ELSE node.playlist = playlist

====
